---------------------------- MODULE Spec2Model ----------------------------
(***************************************************************************)
(* Model of the FRITZ!SmartHome data update coordinator                    *)
(* (homeassistant/components/fritzbox/coordinator.py): the poll cycle      *)
(* _update_fritz_devices, run on a worker, and the registry reconciliation *)
(* cleanup_removed_devices.                                                *)
(* With it, of the Lutron integration (homeassistant/components/lutron):   *)
(* the keypad button callback that fires events, and the services of the   *)
(* climate entity that set modes and setpoints.                            *)
(*                                                                         *)
(* Strings that the code takes apart (unique IDs, AINs) are tuples of      *)
(* one-character strings, so that str.split and prefix tests are computed. *)
(* An Optional[int] attribute is a set with at most one element: {} is     *)
(* None, {n} is the int n; isinstance(x, int) is x # {}.                   *)
(***************************************************************************)
EXTENDS Integers, Sequences, FiniteSets, TLC

\* ------------------------------------------------------------------ bounds

\* entity records plus device records the two registries hold at most, where
\* reconciliation is called directly
MaxRecords == 2
\* the same, where the coordinator polls
MaxPollRecords == 1
\* length of the ID list handed to a direct reconciliation call
MaxListLen == 2
\* events on the bus
MaxEvents == 3
\* the lowest and the highest temperature asked for, in whole degrees Fahrenheit
MinTemp == 68
MaxTemp == 70

\* --------------------------------------------------------------- constants

FRITZ_DOMAIN == "fritzbox"
OTHER_DOMAIN == "zha"
\* the config entry of this coordinator, and another integration's entry
ENTRY == "entry_fritz"
OTHER_ENTRY == "entry_other"

\* hardware addresses (AINs); "ab" has "a" as a proper prefix
AinA == <<"a">>
AinAB == <<"a", "b">>
AinT == <<"t">>
DeviceAins == {AinA, AinAB}
TemplateAins == {AinT}
AllAins == DeviceAins \cup TemplateAins

\* unique IDs of entities: the AIN itself, or the AIN, "_" and a key
Suffixes == {<< >>, <<"_", "x">>}
UniqueIds == {a \o s : a \in AllAins, s \in Suffixes}

\* ----------------------------------------------------------------- helpers

Range(f) == {f[i] : i \in DOMAIN f}

Min(S) == CHOOSE m \in S : \A n \in S : m <= n

\* x in L, for a Python list L
InList(x, L) == \E i \in DOMAIN L : L[i] = x

\* list(d) of a dict with key set S: the keys in the dict's order
KeyList(S) == CHOOSE s \in [1 .. Cardinality(S) -> S] : Range(s) = S

\* the unique ID compared whole, the split forgotten
SplitFirstWhole(s) == s

\* s.split("_")[0]
SplitFirst(s) ==
    LET idx == {i \in 1 .. Len(s) : s[i] = "_"}
    IN  IF idx = {} THEN s ELSE SubSeq(s, 1, Min(idx) - 1)

\* s.startswith(p)
StartsWith(s, p) == Len(p) <= Len(s) /\ SubSeq(s, 1, Len(p)) = p

\* ---------------------------------------------------- vendor client's data

\* FritzhomeDevice as far as the coordinator reads it
Dev(a, s) ==
    [ain |-> a, has_powermeter |-> s.has_powermeter, present |-> s.present,
     voltage |-> s.voltage, power |-> s.power, energy |-> s.energy]

\* a negative, a zero and a positive reading
Readings == {0 - 1, 0, 1}
OptReadings == {{}} \cup {{r} : r \in Readings}

\* every combination of the five attributes the availability correction reads
AllShapes ==
    [has_powermeter : BOOLEAN, present : BOOLEAN, voltage : OptReadings,
     power : OptReadings, energy : Readings]

\* a switch that meters normally, and one that shows the zero-reading quirk
NormalShape ==
    [has_powermeter |-> TRUE, present |-> TRUE, voltage |-> {1}, power |-> {1},
     energy |-> 1]
QuirkShape ==
    [has_powermeter |-> TRUE, present |-> TRUE, voltage |-> {0}, power |-> {0},
     energy |-> 0]

\* a switch the hub has lost contact with
OfflineShape ==
    [has_powermeter |-> TRUE, present |-> FALSE, voltage |-> {}, power |-> {},
     energy |-> 0]

\* what get_devices() can hold after update_devices(): one device per AIN
HubDeviceLists(ains, shapes) ==
    UNION {{{Dev(a, f[a]) : a \in S} : f \in [S -> shapes]} : S \in SUBSET ains}

\* the device lists of the poll specification: none, device a metering or with the
\* quirk, device ab alone, both devices
PollReplies ==
    {{}, {Dev(AinA, NormalShape)}, {Dev(AinA, QuirkShape)}, {Dev(AinAB, NormalShape)},
     {Dev(AinA, NormalShape), Dev(AinAB, NormalShape)}}

\* the device lists of the object specification: none, device a metering, with the
\* quirk, or gone offline
ObjectReplies ==
    {{}, {Dev(AinA, NormalShape)}, {Dev(AinA, QuirkShape)}, {Dev(AinA, OfflineShape)}}

\* the device lists of the readings specification: one device, every combination
ReadingsReplies == HubDeviceLists({AinA}, AllShapes)

\* what get_templates() can hold after update_templates()
HubTemplateLists == {{[ain |-> a] : a \in S} : S \in SUBSET TemplateAins}

\* a dict built by d[x.ain] = x for x in a list
BuildDict(objs) ==
    [a \in {o.ain : o \in objs} |-> CHOOSE o \in objs : o.ain = a]

EmptyDict == BuildDict({})
EmptySnapshot == [devices |-> EmptyDict, templates |-> EmptyDict]

\* -------------------------------------------------------------- registries

\* the entity records of the entity registry: every unique ID for this config
\* entry, one of them for the other one too
EntityRecords ==
    [unique_id : UniqueIds, config_entry_id : {ENTRY}]
    \cup [unique_id : {AinAB \o <<"_", "x">>}, config_entry_id : {OTHER_ENTRY}]

\* the identifier sets a device record can carry
IdentifierSets ==
    {{<<FRITZ_DOMAIN, AinA>>}, {<<FRITZ_DOMAIN, AinAB>>}, {<<FRITZ_DOMAIN, AinT>>},
     {<<OTHER_DOMAIN, AinA>>}, {<<FRITZ_DOMAIN, AinA>>, <<FRITZ_DOMAIN, AinAB>>}}

\* the device records of the device registry: each identifier set for this config
\* entry alone, and records shared with or owned by the other one
DeviceRecords ==
    [identifiers : IdentifierSets, config_entries : {{ENTRY}}]
    \cup [identifiers : {{<<FRITZ_DOMAIN, AinAB>>}, {<<OTHER_DOMAIN, AinA>>}},
          config_entries : {{ENTRY, OTHER_ENTRY}}]
    \cup [identifiers : {{<<FRITZ_DOMAIN, AinT>>}}, config_entries : {{OTHER_ENTRY}}]

\* the registries (entity registry: a set of entity records; device registry:
\* device id -> device record) holding records of E and D, max in all
Registries(E, D, max) ==
    UNION {{e \in SUBSET E : Cardinality(e) + k <= max} \X [1 .. k -> D] :
           k \in 0 .. max}

\* the records the poll specifications start from and register
PollEntityRecords ==
    {[unique_id |-> AinA, config_entry_id |-> ENTRY],
     [unique_id |-> AinAB \o <<"_", "x">>, config_entry_id |-> ENTRY],
     [unique_id |-> AinT \o <<"_", "x">>, config_entry_id |-> ENTRY],
     [unique_id |-> AinA \o <<"_", "x">>, config_entry_id |-> OTHER_ENTRY]}
PollDeviceRecords ==
    {[identifiers |-> {<<FRITZ_DOMAIN, AinAB>>}, config_entries |-> {ENTRY}],
     [identifiers |-> {<<FRITZ_DOMAIN, AinT>>},
      config_entries |-> {ENTRY, OTHER_ENTRY}]}

\* er.async_entries_for_config_entry
EntityEntriesForConfigEntry(reg, entry) ==
    {e \in reg : e.config_entry_id = entry}

\* dr.async_entries_for_config_entry (device ids)
DeviceEntriesForConfigEntry(reg, entry) ==
    {id \in DOMAIN reg : entry \in reg[id].config_entries}

\* the first loop stopping after the first record it removes
ObsoleteEntitiesFirstOnly(reg, avaiable_ains) ==
    LET obsolete ==
            {e \in EntityEntriesForConfigEntry(reg, ENTRY) :
                ~InList(SplitFirst(e.unique_id), avaiable_ains)}
    IN  IF obsolete = {} THEN {} ELSE {CHOOSE e \in obsolete : TRUE}

\* the entity records the first loop of cleanup_removed_devices removes
ObsoleteEntities(reg, avaiable_ains) ==
    {e \in EntityEntriesForConfigEntry(reg, ENTRY) :
        ~InList(SplitFirst(e.unique_id), avaiable_ains)}

\* entity_reg.async_remove for each of them
EntityRegAfterCleanup(reg, avaiable_ains) ==
    reg \ ObsoleteEntities(reg, avaiable_ains)

\* identifiers = {(DOMAIN, ain) for ain in avaiable_ains}
Identifiers(avaiable_ains) ==
    {<<FRITZ_DOMAIN, avaiable_ains[i]>> : i \in DOMAIN avaiable_ains}

\* the second loop comparing addresses whatever the identifier's domain
ObsoleteDevicesAnyDomain(reg, avaiable_ains) ==
    {id \in DeviceEntriesForConfigEntry(reg, ENTRY) :
        ~\E p \in reg[id].identifiers : InList(p[2], avaiable_ains)}

\* the device records the second loop of cleanup_removed_devices updates
ObsoleteDevices(reg, avaiable_ains) ==
    {id \in DeviceEntriesForConfigEntry(reg, ENTRY) :
        reg[id].identifiers \cap Identifiers(avaiable_ains) = {}}

\* device_reg.async_update_device(id, remove_config_entry_id=entry): the record
\* stays, the association with the entry goes
RemoveConfigEntry(device, entry) ==
    [device EXCEPT !.config_entries = @ \ {entry}]

DeviceRegAfterCleanup(reg, avaiable_ains) ==
    [id \in DOMAIN reg |->
        IF id \in ObsoleteDevices(reg, avaiable_ains)
        THEN RemoveConfigEntry(reg[id], ENTRY)
        ELSE reg[id]]

\* ------------------------------------------------------------------- state

VARIABLES
    has_templates,   \* self.has_templates
    data,            \* self.data: [devices, templates], each a dict ain -> object
    new_devices,     \* self.new_devices
    new_templates,   \* self.new_templates
    fritz,           \* the vendor client's cache: [devices, templates], sets of objects
    pc,              \* where the worker is in the poll cycle
    result,          \* the snapshot _update_fritz_devices is about to return
    outcome,         \* how the last finished cycle ended
    setup_done,      \* async_setup has run its cleanup
    entity_reg,      \* entity registry: a set of entity records
    device_reg,      \* device registry: device id -> device record
    cycle_start,     \* history: data, new_devices, new_templates when the cycle began
    log,             \* history: the vendor calls of the current cycle, <<call, result>>
    cleanups,        \* history: cleanup_removed_devices calls of the current cycle
    fetched,         \* history: what the hub returned to the latest update calls
    reported,        \* history: the IDs the hub reported to the last successful cycle
    cleanup_arg,     \* history: the ID list of the latest direct reconciliation call
    called,          \* history: cleanup_removed_devices has been called directly
    repeated,        \* history: the latest direct call repeated the one before it
    before_call,     \* history: the registries before the latest cleanup_removed_devices
    in_place,        \* the vendor client updates the objects it caches (or replaces them)
    data_objects,    \* the device objects self.data holds, as a reader finds them now
    shared,          \* the AINs whose object in self.data is the one the client caches
    bus,             \* hass.bus: the events fired so far, <<event type, event data>>
    callback,        \* history: the latest button callback and the bus before it
    hvac,            \* the Lutron HVAC device a LutronClimate entity controls
    call             \* history: the latest service call on the entity, the device before it

vars ==
    <<has_templates, data, new_devices, new_templates, fritz, pc, result, outcome,
      setup_done, entity_reg, device_reg, cycle_start, log, cleanups,
      fetched, reported, cleanup_arg, called, repeated, before_call,
      in_place, data_objects, shared, bus, callback, hvac, call>>

lutron_vars == <<bus, callback, hvac, call>>
fritzbox_vars ==
    <<has_templates, data, new_devices, new_templates, fritz, pc, result, outcome,
      setup_done, entity_reg, device_reg, cycle_start, log, cleanups,
      fetched, reported, cleanup_arg, called, repeated, before_call,
      in_place, data_objects, shared>>

coordinator_vars == <<data, new_devices, new_templates>>
registry_vars == <<entity_reg, device_reg>>
cycle_history == <<cycle_start, log, cleanups>>
direct_call_vars == <<cleanup_arg, called, repeated>>
object_vars == <<data_objects, shared>>

\* FritzboxDataUpdateCoordinator.__init__, with the registries as they were persisted
InitCoordinator(registries, flags, modes) ==
    /\ has_templates \in flags
    /\ in_place \in modes
    /\ data_objects = EmptyDict
    /\ shared = {}
    /\ data = EmptySnapshot
    /\ new_devices = {}
    /\ new_templates = {}
    /\ fritz = [devices |-> {}, templates |-> {}]
    /\ pc = "idle"
    /\ result = EmptySnapshot
    /\ outcome = "none"
    /\ setup_done = FALSE
    /\ \E r \in registries : entity_reg = r[1] /\ device_reg = r[2]
    /\ cycle_start = [data |-> EmptySnapshot, new_devices |-> {}, new_templates |-> {},
                      objects |-> EmptyDict]
    /\ log = << >>
    /\ cleanups = 0
    /\ fetched = [devices |-> {}, templates |-> {}]
    /\ reported = [devices |-> {}, templates |-> {}]
    /\ cleanup_arg = << >>
    /\ called = FALSE
    /\ repeated = FALSE
    /\ before_call = [entity_reg |-> entity_reg, device_reg |-> device_reg]

\* ---------------------------------------------------------- the poll cycle

\* the correction with the energy test left out
AssumeUnavailableNoEnergy(device) ==
    /\ device.has_powermeter
    /\ device.present
    /\ \E v \in device.voltage : v <= 0
    /\ \E p \in device.power : p <= 0

\* the condition of the availability correction ("assume device as unavailable")
AssumeUnavailable(device) ==
    /\ device.has_powermeter
    /\ device.present
    /\ \E v \in device.voltage : v <= 0
    /\ \E p \in device.power : p <= 0
    /\ device.energy <= 0

\* the loop body over get_devices(): device.present = False where it applies
Corrected(device) ==
    IF AssumeUnavailable(device) THEN [device EXCEPT !.present = FALSE] ELSE device

\* every ID of the new dict taken as new
NewIdsAll(fresh, stored) == DOMAIN fresh

\* device_data.keys() - self.data.devices.keys()
NewIds(fresh, stored) == (DOMAIN fresh) \ (DOMAIN stored)

\* the guard met by any change of the IDs, an added one too
IdsRemovedOrAdded(stored, device_data, template_data) ==
    \/ DOMAIN stored.devices # DOMAIN device_data
    \/ DOMAIN stored.templates # DOMAIN template_data

\* the test that guards the call of cleanup_removed_devices
IdsRemoved(stored, device_data, template_data) ==
    \/ (DOMAIN stored.devices) \ (DOMAIN device_data) # {}
    \/ (DOMAIN stored.templates) \ (DOMAIN template_data) # {}

\* the ID list with the templates left out
AvailableAinsDevicesOnly(device_data, template_data) ==
    KeyList(DOMAIN device_data)

\* list(device_data) + list(template_data)
AvailableAins(device_data, template_data) ==
    KeyList(DOMAIN device_data) \o KeyList(DOMAIN template_data)

\* the snapshot with the template dict left empty
ReturnValueDevicesOnly(device_data, template_data) ==
    [devices |-> device_data, templates |-> EmptyDict]

\* line 133: the snapshot the cycle returns
ReturnValue(device_data, template_data) ==
    [devices |-> device_data, templates |-> template_data]

\* the vendor call the worker is about to make
CallAt(at) ==
    IF at \in {"try_devices", "retry_devices"} THEN "update_devices"
    ELSE "update_templates"

\* one except clause for both exceptions: log in again whatever was raised
TryExceptLoginOnAny(ex) == [pc |-> "login", outcome |-> ""]

\* the except clauses of the try block: where the worker goes on, and the exception
\* the cycle ends with ("" while it goes on)
TryExcept(ex) ==
    IF ex = "RequestConnectionError"
    THEN [pc |-> "idle", outcome |-> "UpdateFailed"]
    ELSE [pc |-> "login", outcome |-> ""]

\* the login failure reported as the retryable failure
LoginExceptUpdateFailed(ex) == "UpdateFailed"

\* the except clause around login(): raise ConfigEntryAuthFailed from ex
LoginExcept(ex) == "ConfigEntryAuthFailed"

\* the retried fetch stands in the HTTPError handler, outside any try: what a call
\* of it raises leaves _update_fritz_devices as it is
RetryRaised(ex) == ex

\* the first refresh of async_setup or, once set up, the timer: _async_update_data
\* hands _update_fritz_devices to a worker. With setup_only, the refreshes of
\* async_setup alone, tried again until one succeeds.
StartCycle(setup_only) ==
    /\ pc = "idle"
    /\ setup_only => ~setup_done
    /\ pc' = "try_devices"
    /\ cycle_start' =
        [data |-> data, new_devices |-> new_devices, new_templates |-> new_templates,
         objects |-> data_objects]
    /\ log' = << >>
    /\ cleanups' = 0
    /\ UNCHANGED <<lutron_vars, has_templates, in_place,
                   coordinator_vars, fritz, result, outcome, setup_done,
                   registry_vars, fetched, reported, direct_call_vars, before_call>>
    /\ UNCHANGED object_vars

\* the objects of the stored snapshot that the client still caches after
\* update_devices(): those of the AINs the hub sent again where the client updates its
\* objects, none where it makes new ones
KeptObjects(reply) ==
    IF in_place THEN shared \cap {d.ain : d \in reply} ELSE {}

\* self.data.devices holds references: what is written to an object the client caches
\* shows in the stored snapshot that holds the same object
WrittenThrough(objects, same) ==
    [a \in DOMAIN data_objects |-> IF a \in same THEN objects[a] ELSE data_objects[a]]

\* self.fritz.update_devices() returns: the client holds what the hub sent
UpdateDevices(replies) ==
    /\ pc \in {"try_devices", "retry_devices"}
    /\ \E reply \in replies :
        /\ fritz' = [fritz EXCEPT !.devices = reply]
        /\ fetched' = [fetched EXCEPT !.devices = reply]
        /\ shared' = KeptObjects(reply)
        /\ data_objects' = WrittenThrough(BuildDict(reply), KeptObjects(reply))
    /\ log' = Append(log, <<"update_devices", "ok">>)
    /\ pc' = IF has_templates
             THEN (IF pc = "try_devices" THEN "try_templates" ELSE "retry_templates")
             ELSE "build"
    /\ UNCHANGED <<lutron_vars, has_templates, in_place,
                   coordinator_vars, result, outcome, setup_done,
                   registry_vars, cycle_start, cleanups, reported,
                   direct_call_vars, before_call>>

\* self.fritz.update_templates() returns
UpdateTemplates ==
    /\ pc \in {"try_templates", "retry_templates"}
    /\ \E reply \in HubTemplateLists :
        /\ fritz' = [fritz EXCEPT !.templates = reply]
        /\ fetched' = [fetched EXCEPT !.templates = reply]
    /\ log' = Append(log, <<"update_templates", "ok">>)
    /\ pc' = "build"
    /\ UNCHANGED <<lutron_vars, has_templates, in_place,
                   coordinator_vars, result, outcome, setup_done,
                   registry_vars, cycle_start, cleanups, reported,
                   direct_call_vars, before_call>>
    /\ UNCHANGED object_vars

\* a call of the try block raises ex: the matching except clause runs
FetchRaises(ex) ==
    /\ pc \in {"try_devices", "try_templates"}
    /\ log' = Append(log, <<CallAt(pc), ex>>)
    /\ pc' = TryExcept(ex).pc
    /\ outcome' = IF TryExcept(ex).pc = "idle" THEN TryExcept(ex).outcome ELSE outcome
    /\ UNCHANGED <<lutron_vars, has_templates, in_place,
                   coordinator_vars, fritz, result, setup_done,
                   registry_vars, cycle_start, cleanups, fetched, reported,
                   direct_call_vars, before_call>>
    /\ UNCHANGED object_vars

\* the login returned and the handler has skipped the retried fetch
AfterLoginNoRetry == "build"

\* the handler calling login() once more when it has returned
AfterLoginAgain == "login"

\* where the HTTPError handler goes on when login() has returned: the retried fetch
AfterLogin == "retry_devices"

\* self.fritz.login() returns
Login ==
    /\ pc = "login"
    /\ log' = Append(log, <<"login", "ok">>)
    /\ pc' = AfterLogin
    /\ UNCHANGED <<lutron_vars, has_templates, in_place,
                   coordinator_vars, fritz, result, outcome, setup_done,
                   registry_vars, cycle_start, cleanups, fetched, reported,
                   direct_call_vars, before_call>>
    /\ UNCHANGED object_vars

\* self.fritz.login() raises LoginError
LoginFails ==
    /\ pc = "login"
    /\ log' = Append(log, <<"login", "LoginError">>)
    /\ outcome' = LoginExcept("LoginError")
    /\ pc' = "idle"
    /\ UNCHANGED <<lutron_vars, has_templates, in_place,
                   coordinator_vars, fritz, result, setup_done,
                   registry_vars, cycle_start, cleanups, fetched, reported,
                   direct_call_vars, before_call>>
    /\ UNCHANGED object_vars

\* a call of the retried fetch raises ex
RetryFetchRaises(ex) ==
    /\ pc \in {"retry_devices", "retry_templates"}
    /\ log' = Append(log, <<CallAt(pc), ex>>)
    /\ outcome' = RetryRaised(ex)
    /\ pc' = "idle"
    /\ UNCHANGED <<lutron_vars, has_templates, in_place,
                   coordinator_vars, fritz, result, setup_done,
                   registry_vars, cycle_start, cleanups, fetched, reported,
                   direct_call_vars, before_call>>
    /\ UNCHANGED object_vars

\* the rest of _update_fritz_devices: correct availability, build the two dicts,
\* set new_devices and new_templates, reconcile the registries if an ID went away
BuildSnapshot ==
    /\ pc = "build"
    /\ LET devices == {Corrected(d) : d \in fritz.devices}
           device_data == BuildDict(devices)
           template_data ==
               IF has_templates THEN BuildDict(fritz.templates) ELSE EmptyDict
           removed == IdsRemoved(data, device_data, template_data)
           avaiable_ains == AvailableAins(device_data, template_data)
       IN  /\ fritz' = [fritz EXCEPT !.devices = devices]
           /\ data_objects' = WrittenThrough(device_data, shared)
           /\ new_devices' = NewIds(device_data, data.devices)
           /\ new_templates' = NewIds(template_data, data.templates)
           /\ entity_reg' = IF removed
                            THEN EntityRegAfterCleanup(entity_reg, avaiable_ains)
                            ELSE entity_reg
           /\ device_reg' = IF removed
                            THEN DeviceRegAfterCleanup(device_reg, avaiable_ains)
                            ELSE device_reg
           /\ before_call' = IF removed
                             THEN [entity_reg |-> entity_reg, device_reg |-> device_reg]
                             ELSE before_call
           /\ cleanups' = IF removed THEN cleanups + 1 ELSE cleanups
           /\ result' = ReturnValue(device_data, template_data)
    /\ pc' = "store"
    /\ UNCHANGED <<lutron_vars, has_templates, in_place,
                   data, outcome, setup_done, cycle_start, log,
                   fetched, reported, direct_call_vars, shared>>

\* the snapshot is returned and becomes self.data
ReturnSnapshot ==
    /\ pc = "store"
    /\ data' = result
    /\ result' = EmptySnapshot
    /\ outcome' = "ok"
    /\ reported' = [devices |-> {d.ain : d \in fetched.devices},
                    templates |-> {t.ain : t \in fetched.templates}]
    /\ cycle_start' =
        [data |-> result, new_devices |-> new_devices, new_templates |-> new_templates,
         objects |-> result.devices]
    /\ data_objects' = result.devices
    /\ shared' = DOMAIN result.devices
    /\ pc' = IF setup_done THEN "idle" ELSE "setup_cleanup"
    /\ UNCHANGED <<lutron_vars, has_templates, in_place,
                   new_devices, new_templates, fritz, setup_done,
                   registry_vars, log, cleanups, fetched, direct_call_vars,
                   before_call>>

\* async_setup, after the first refresh: reconcile against the first snapshot
AsyncSetupCleanup ==
    /\ pc = "setup_cleanup"
    /\ LET avaiable_ains == AvailableAins(data.devices, data.templates)
       IN  /\ entity_reg' = EntityRegAfterCleanup(entity_reg, avaiable_ains)
           /\ device_reg' = DeviceRegAfterCleanup(device_reg, avaiable_ains)
    /\ before_call' = [entity_reg |-> entity_reg, device_reg |-> device_reg]
    /\ setup_done' = TRUE
    /\ pc' = "idle"
    /\ UNCHANGED <<lutron_vars, has_templates, in_place,
                   coordinator_vars, fritz, result, outcome,
                   cycle_history, fetched, reported, direct_call_vars>>
    /\ UNCHANGED object_vars

\* a platform registers an entity of this config entry between two cycles
RegisterEntity ==
    /\ pc = "idle"
    /\ setup_done
    /\ Cardinality(entity_reg) + Len(device_reg) < MaxPollRecords
    /\ \E e \in EntityEntriesForConfigEntry(PollEntityRecords, ENTRY) \ entity_reg :
        entity_reg' = entity_reg \cup {e}
    /\ UNCHANGED <<lutron_vars, has_templates, in_place,
                   coordinator_vars, fritz, pc, result, outcome,
                   setup_done, device_reg, cycle_history, fetched, reported,
                   direct_call_vars, before_call>>
    /\ UNCHANGED object_vars

VendorErrors == {"RequestConnectionError", "HTTPError"}

PollNext(replies, setup_only) ==
    \/ StartCycle(setup_only)
    \/ UpdateDevices(replies)
    \/ UpdateTemplates
    \/ \E ex \in VendorErrors : FetchRaises(ex)
    \/ Login
    \/ LoginFails
    \/ \E ex \in VendorErrors : RetryFetchRaises(ex)
    \/ BuildSnapshot
    \/ ReturnSnapshot
    \/ AsyncSetupCleanup
    \/ RegisterEntity

\* cleanup_removed_devices(avaiable_ains), called on its own
DirectCleanup(avaiable_ains) ==
    /\ pc = "idle"
    /\ before_call' = [entity_reg |-> entity_reg, device_reg |-> device_reg]
    /\ entity_reg' = EntityRegAfterCleanup(entity_reg, avaiable_ains)
    /\ device_reg' = DeviceRegAfterCleanup(device_reg, avaiable_ains)
    /\ cleanup_arg' = avaiable_ains
    /\ repeated' = (called /\ cleanup_arg = avaiable_ains)
    /\ called' = TRUE
    /\ UNCHANGED <<lutron_vars, has_templates, in_place,
                   coordinator_vars, fritz, pc, result, outcome,
                   setup_done, cycle_history, fetched, reported>>
    /\ UNCHANGED object_vars

\* the ID lists of a direct call: distinct addresses in any order, as the keys of
\* the two dicts are
IdLists ==
    {l \in UNION {[1 .. n -> AllAins] : n \in 0 .. MaxListLen} :
        Cardinality(Range(l)) = Len(l)}

\* ---------------------------------------------------- Lutron keypad buttons

\* Button.Event of the vendor library; "HOLD" stands for any event that is neither
PRESSED == "PRESSED"
RELEASED == "RELEASED"
ButtonEvents == {PRESSED, RELEASED, "HOLD"}

\* word in s, for a string s given as the tuple of its words
Contains(s, word) == \E i \in DOMAIN s : s[i] = word

\* the buttons of one keypad as the vendor library describes them: the four types
\* the integration names, and a button without a type (None)
KeypadButtons ==
    {[name |-> "Up", number |-> "1", button_type |-> {<<"Master", "RaiseLower">>},
      uuid |-> "u1"],
     [name |-> "Scene", number |-> "2",
      button_type |-> {<<"SingleScene", "RaiseLower">>}, uuid |-> "u2"],
     [name |-> "All Off", number |-> "3", button_type |-> {<<"SingleAction">>},
      uuid |-> "u3"],
     [name |-> "Lamp", number |-> "4", button_type |-> {<<"Toggle">>}, uuid |-> "u4"],
     [name |-> "Unknown Button", number |-> "5", button_type |-> {}, uuid |-> "u5"]}

KEYPAD_NAME == "Entry"
AREA_NAME == "Hall"

\* homeassistant.util.slugify, kept as a mark on the text it is given
Slugify(text) == <<"slugify">> \o text

\* a release event for every button whose type says RaiseLower and nothing else
HasReleaseEventExact(button) == button.button_type = {<<"RaiseLower">>}

\* button.button_type is not None and "RaiseLower" in button.button_type
HasReleaseEvent(button) ==
    \E button_type \in button.button_type : Contains(button_type, "RaiseLower")

\* LutronButton.__init__: the fields button_callback reads
LutronButton(area_name, keypad_name, button) ==
    LET name == IF button.name = "Unknown Button"
                THEN <<keypad_name, ": ", button.name, " ", button.number>>
                ELSE <<keypad_name, ": ", button.name>>
    IN  [_has_release_event |-> HasReleaseEvent(button),
         _id |-> Slugify(name),
         _event |-> "lutron_event",
         _full_id |-> Slugify(<<area_name, " ">> \o name),
         _uuid |-> button.uuid]

\* the action button_callback settles on: {} is None
ButtonAction(self, event) ==
    IF self._has_release_event
    THEN (IF event = PRESSED THEN {"pressed"} ELSE {"released"})
    ELSE (IF event = PRESSED THEN {"single"} ELSE {})

\* the data dict of the fired event
EventData(self, action) ==
    [id |-> self._id, action |-> action, full_id |-> self._full_id,
     uuid |-> self._uuid]

\* LutronButton.button_callback, called by the vendor library for the button
ButtonCallback(button, event) ==
    /\ Len(bus) < MaxEvents
    /\ LET self == LutronButton(AREA_NAME, KEYPAD_NAME, button)
       IN  bus' = IF ButtonAction(self, event) # {}
                  THEN Append(bus, <<self._event,
                                     EventData(self, CHOOSE a \in ButtonAction(self, event) : TRUE)>>)
                  ELSE bus
    /\ callback' = [called |-> TRUE, button |-> button, event |-> event,
                    before |-> Len(bus)]
    /\ UNCHANGED <<fritzbox_vars, hvac, call>>

\* ------------------------------------------------- Lutron climate entity

\* HVACMode, the fan modes and the presets of the climate platform
HVAC_OFF == "off"
HVAC_HEAT == "heat"
HVAC_COOL == "cool"
HVACModes == {HVAC_OFF, HVAC_HEAT, HVAC_COOL, "heat_cool", "auto", "dry", "fan_only"}
FanModes == {"auto", "on", "off", "high", "medium", "low", "diffuse"}
PRESET_ECO == "eco"
PRESET_NONE == "none"
PRESET_SCHEDULE == "FOLLOWING_SCHEDULE"
PRESET_HOLD_PERM == "PERMANENT_HOLD"
PRESET_HOLD_PERM_ECO == "PERMANENT_HOLD_ECO"
PRESET_HOLD_TEMP == "TEMPORARY_HOLD"
PRESET_HOLD_TEMP_ECO == "TEMPORARY_HOLD_ECO"
PresetModes ==
    {PRESET_ECO, PRESET_NONE, PRESET_SCHEDULE, PRESET_HOLD_PERM, PRESET_HOLD_PERM_ECO,
     PRESET_HOLD_TEMP, PRESET_HOLD_TEMP_ECO, "EMERGENCY_HEAT"}

\* the two dicts, as the sequences of their items in the order they are written
LUTRON_TO_HVAC_MODES ==
    << <<"OFF", HVAC_OFF>>, <<"HEAT", HVAC_HEAT>>, <<"COOL", HVAC_COOL>>,
       <<"AUTO", "auto">>, <<"LOCKED", HVAC_OFF>>, <<"FAN", "fan_only">>,
       <<"DRY", "dry">> >>

LUTRON_TO_FAN_MODES ==
    << <<"AUTO", "auto">>, <<"ON", "on">>, <<"NO_FAN", "off">>, <<"HIGH", "high">>,
       <<"MEDIUM", "medium">>, <<"LOW", "low">> >>

\* dictionary.get(key): {} is None
DictGet(dictionary, key) ==
    {dictionary[i][2] : i \in {j \in DOMAIN dictionary : dictionary[j][1] = key}}

\* _find_key_by_value: the first key that has the value, {} (None) if none has
FindKeyByValue(dictionary, value) ==
    LET found == {i \in DOMAIN dictionary : dictionary[i][2] = value}
    IN  IF found = {} THEN {} ELSE {dictionary[Min(found)][1]}

\* [dictionary[mode] for mode in modes if mode in dictionary]
Translated(modes, dictionary) ==
    LET known == SelectSeq(modes, LAMBDA mode : DictGet(dictionary, mode) # {})
    IN  [i \in DOMAIN known |-> CHOOSE v \in DictGet(dictionary, known[i]) : TRUE]

\* self._attr_hvac_modes and self._attr_fan_modes, set in __init__
HvacModesOf(device) == Translated(device._operating_modes, LUTRON_TO_HVAC_MODES)
FanModesOf(device) == Translated(device._fan_modes, LUTRON_TO_FAN_MODES)

\* the preset_modes property
PresetModesOf(device) ==
    <<PRESET_SCHEDULE, PRESET_HOLD_TEMP>>
    \o (IF "SCHEDULE_ON_OFF" \in device.avail_misc_features
        THEN <<PRESET_HOLD_PERM>> ELSE << >>)
    \o (IF "ECO" \in device.avail_misc_features
        THEN <<PRESET_ECO, PRESET_HOLD_PERM_ECO, PRESET_HOLD_TEMP_ECO>> ELSE << >>)

\* the hvac_mode property: {} is None
HvacModeOf(device) == DictGet(LUTRON_TO_HVAC_MODES, device.last_mode)

\* the vendor library's HVAC object: what the thermostat supports, the mode it last
\* reported, and the attributes the entity assigns ({} is None)
HvacDevice(operating_modes, fan_modes, features, mode, heat, cool) ==
    [_operating_modes |-> operating_modes, _fan_modes |-> fan_modes,
     avail_misc_features |-> features, last_mode |-> mode,
     current_mode |-> {}, current_fan |-> {}, preset_mode |-> {},
     setpoint_heat_f |-> heat, setpoint_cool_f |-> cool]

\* the setpoints and the modes before a call
Before(device) ==
    [current_mode |-> device.current_mode, current_fan |-> device.current_fan,
     preset_mode |-> device.preset_mode, setpoint_heat_f |-> device.setpoint_heat_f,
     setpoint_cool_f |-> device.setpoint_cool_f, hvac_mode |-> HvacModeOf(device)]

\* the record of a service call
Called(op, arg, kwargs, raised) ==
    [made |-> TRUE, op |-> op, arg |-> arg, kwargs |-> kwargs, raised |-> raised,
     before |-> Before(hvac)]

\* no value is turned down
RejectedNever(value, supported) == FALSE

\* value not in supported
Rejected(value, supported) == ~InList(value, supported)

\* LutronClimate.async_set_hvac_mode
AsyncSetHvacMode(hvac_mode) ==
    /\ hvac' =
        IF Rejected(hvac_mode, HvacModesOf(hvac)) THEN hvac
        ELSE [hvac EXCEPT !.current_mode = FindKeyByValue(LUTRON_TO_HVAC_MODES, hvac_mode)]
    /\ call' = Called("async_set_hvac_mode", hvac_mode, EmptyDict,
                      IF Rejected(hvac_mode, HvacModesOf(hvac)) THEN "ValueError" ELSE "")
    /\ UNCHANGED <<fritzbox_vars, bus, callback>>

\* LutronClimate.async_set_fan_mode (self.fan_modes is a list, never None)
AsyncSetFanMode(fan_mode) ==
    /\ hvac' =
        IF Rejected(fan_mode, FanModesOf(hvac)) THEN hvac
        ELSE [hvac EXCEPT !.current_fan = FindKeyByValue(LUTRON_TO_FAN_MODES, fan_mode)]
    /\ call' = Called("async_set_fan_mode", fan_mode, EmptyDict,
                      IF Rejected(fan_mode, FanModesOf(hvac)) THEN "ValueError" ELSE "")
    /\ UNCHANGED <<fritzbox_vars, bus, callback>>

\* LutronClimate.async_set_preset_mode (self.preset_modes is a list, never None)
AsyncSetPresetMode(preset_mode) ==
    /\ hvac' =
        IF Rejected(preset_mode, PresetModesOf(hvac)) THEN hvac
        ELSE [hvac EXCEPT !.preset_mode = {preset_mode}]
    /\ call' = Called("async_set_preset_mode", preset_mode, EmptyDict,
                      IF Rejected(preset_mode, PresetModesOf(hvac)) THEN "ValueError" ELSE "")
    /\ UNCHANGED <<fritzbox_vars, bus, callback>>

\* Python's round() of a temperature given in quarters of a degree: to the nearest
\* whole degree, a half to the even one
Round(quarters) ==
    LET floor == quarters \div 4
        rest == quarters % 4
    IN  IF rest < 2 THEN floor
        ELSE IF rest > 2 THEN floor + 1
        ELSE IF floor % 2 = 0 THEN floor ELSE floor + 1

ATTR_TEMPERATURE == "temperature"

\* the other setpoint moved only when the two would meet
TooCloseToMeet(upper, lower) == upper - lower < 1

\* the test before the other setpoint is moved
TooClose(upper, lower) == upper - lower < 3

\* LutronClimate.async_set_temperature(**kwargs)
AsyncSetTemperature(kwargs) ==
    /\ hvac' =
        IF ATTR_TEMPERATURE \notin DOMAIN kwargs THEN hvac
        ELSE LET temperature == kwargs[ATTR_TEMPERATURE]
             IN  IF HvacModeOf(hvac) = {HVAC_COOL}
                 THEN [hvac EXCEPT
                        !.setpoint_heat_f =
                            IF TooClose(Round(temperature), @)
                            THEN Round(temperature) - 3 ELSE @,
                        !.setpoint_cool_f = Round(temperature)]
                 ELSE IF HvacModeOf(hvac) = {HVAC_HEAT}
                 THEN [hvac EXCEPT
                        !.setpoint_cool_f =
                            IF TooClose(@, Round(temperature))
                            THEN Round(temperature) + 3 ELSE @,
                        !.setpoint_heat_f = Round(temperature)]
                 ELSE hvac
    /\ call' = Called("async_set_temperature", "", kwargs,
                      IF ATTR_TEMPERATURE \notin DOMAIN kwargs THEN "ValueError" ELSE "")
    /\ UNCHANGED <<fritzbox_vars, bus, callback>>

\* the thermostat reports its operating mode: what last_mode() returns from then on
ModeReported(mode) ==
    /\ hvac.last_mode # mode
    /\ hvac' = [hvac EXCEPT !.last_mode = mode]
    /\ UNCHANGED <<fritzbox_vars, bus, callback, call>>

\* the operating modes a thermostat may report; the dict has no "EMERGENCY_HEAT"
OperatingModes == {"OFF", "HEAT", "COOL", "AUTO", "EMERGENCY_HEAT"}

\* requested temperatures, in quarters of a degree
Temperatures == (4 * MinTemp) .. (4 * MaxTemp)

\* the setpoints a thermostat may hold when the entity is set up
Setpoints == (MinTemp - 3) .. (MaxTemp + 3)

\* keyword arguments of the set_temperature service: with a temperature, or with a
\* range only, or none
TemperatureKwargs ==
    {[k \in {ATTR_TEMPERATURE} |-> t] : t \in Temperatures}
    \cup {[k \in {"target_temp_low", "target_temp_high"} |-> 4 * MinTemp], EmptyDict}

\* thermostats: one with the common modes, one that can be locked and has the
\* schedule, one with the eco features and modes the dicts do not know
Thermostats ==
    {HvacDevice(<<"OFF", "HEAT", "COOL", "AUTO">>, <<"AUTO", "ON">>, {}, "OFF",
                MinTemp, MaxTemp),
     HvacDevice(<<"LOCKED", "HEAT", "EMERGENCY_HEAT", "OFF">>,
                <<"AUTO", "NO_FAN", "CYCLER">>, {"SCHEDULE_ON_OFF"}, "HEAT",
                MinTemp, MaxTemp),
     HvacDevice(<<"COOL", "FAN", "DRY">>, <<"HIGH", "MEDIUM", "LOW">>,
                {"SCHEDULE_ON_OFF", "ECO"}, "COOL", MinTemp, MaxTemp)}

\* no coordinator at work: the FRITZ!SmartHome integration is set up and idle
NoCoordinator == InitCoordinator(Registries({}, {}, MaxPollRecords), {FALSE}, {FALSE})

\* no button has called back yet
NoCallback ==
    /\ bus = << >>
    /\ callback = [called |-> FALSE]

\* no climate entity
NoThermostat == hvac = [last_mode |-> "OFF"]

\* no service call yet
NoCall == call = [made |-> FALSE]

\* no Lutron system
NoLutron == NoCallback /\ NoThermostat /\ NoCall

\* ---------------------------------------------------------- specifications

\* the coordinator polling a hub with up to two devices and a template
Init ==
    /\ InitCoordinator(Registries(PollEntityRecords, PollDeviceRecords, MaxPollRecords),
                       BOOLEAN, {FALSE})
    /\ NoLutron

Next == PollNext(PollReplies, FALSE)

Spec == Init /\ [][Next]_vars

\* the coordinator in async_setup, at a hub whose one device shows every combination
\* of readings
InitReadings ==
    /\ InitCoordinator(Registries(PollEntityRecords, {}, MaxPollRecords), BOOLEAN, {FALSE})
    /\ NoLutron

NextReadings == PollNext(ReadingsReplies, TRUE)

SpecReadings == InitReadings /\ [][NextReadings]_vars

\* the coordinator polling a hub with one device and a template, through a client
\* that updates the objects it caches or one that replaces them
InitObjects ==
    /\ InitCoordinator(Registries({}, {}, MaxPollRecords), {TRUE}, BOOLEAN)
    /\ NoLutron

NextObjects == PollNext(ObjectReplies, FALSE)

SpecObjects == InitObjects /\ [][NextObjects]_vars

\* cleanup_removed_devices applied to every registry content and every ID list
InitCleanup ==
    /\ InitCoordinator(Registries(EntityRecords, DeviceRecords, MaxRecords), {TRUE}, {FALSE})
    /\ NoLutron

NextCleanup == \E avaiable_ains \in IdLists : DirectCleanup(avaiable_ains)

SpecCleanup == InitCleanup /\ [][NextCleanup]_vars

\* the keypad's buttons pressed and released
InitButtons == NoCoordinator /\ NoLutron

NextButtons ==
    \E button \in KeypadButtons, event \in ButtonEvents : ButtonCallback(button, event)

SpecButtons == InitButtons /\ [][NextButtons]_vars

\* a thermostat with any setpoints, in any mode, and the set_temperature service
InitSetpoints ==
    /\ NoCoordinator
    /\ NoCallback
    /\ \E mode \in OperatingModes, heat \in Setpoints, cool \in Setpoints :
        hvac = HvacDevice(<<"OFF", "HEAT", "COOL", "AUTO">>, <<"AUTO", "ON">>, {}, mode,
                          heat, cool)
    /\ NoCall

NextSetpoints ==
    \/ \E kwargs \in TemperatureKwargs : AsyncSetTemperature(kwargs)
    \/ \E mode \in OperatingModes : ModeReported(mode)

SpecSetpoints == InitSetpoints /\ [][NextSetpoints]_vars

\* the thermostats and the services that set a mode
InitModes ==
    /\ NoCoordinator
    /\ NoCallback
    /\ hvac \in Thermostats
    /\ NoCall

NextModes ==
    \/ \E hvac_mode \in HVACModes : AsyncSetHvacMode(hvac_mode)
    \/ \E fan_mode \in FanModes : AsyncSetFanMode(fan_mode)
    \/ \E preset_mode \in PresetModes : AsyncSetPresetMode(preset_mode)

SpecModes == InitModes /\ [][NextModes]_vars

\* ------------------------------------------------------------------ claims

\* an Optional[int] reading that is a number and not positive
NonPositive(reading) == reading # {} /\ \A v \in reading : v <= 0

\* the five-attribute condition of the availability correction, as the claim states it
ZeroReadingQuirk(device) ==
    /\ device.has_powermeter = TRUE
    /\ device.present = TRUE
    /\ NonPositive(device.voltage)
    /\ NonPositive(device.power)
    /\ device.energy <= 0

\* C1: in the snapshot a cycle returns, a fetched device that has a power meter, is
\* present and reports voltage <= 0, power <= 0 and energy <= 0 has present = false;
\* a device with any other combination of the five attributes (a voltage or power of
\* None is not <= 0) has the present flag the hub reported.
C1_AvailabilityCorrection ==
    pc = "store" =>
        \A d \in fetched.devices :
            /\ d.ain \in DOMAIN result.devices
            /\ result.devices[d.ain].present =
                (IF ZeroReadingQuirk(d) THEN FALSE ELSE d.present)

\* C1 witness: a returned snapshot holds one device the correction marked absent
C1_Witness ==
    /\ pc = "store"
    /\ \E d \in fetched.devices :
        d.present /\ d.voltage = {0} /\ ~result.devices[d.ain].present

\* the prefixes of a string
Prefixes(s) == {SubSeq(s, 1, n) : n \in 0 .. Len(s)}

\* the ID an entity's unique ID names: what stands before its first underscore
LeadingKey(s) ==
    CHOOSE p \in Prefixes(s) :
        /\ \A i \in 1 .. Len(p) : p[i] # "_"
        /\ Len(p) = Len(s) \/ s[Len(p) + 1] = "_"

\* the addresses a device record carries for this integration
FritzAddresses(device) ==
    {p[2] : p \in {q \in device.identifiers : q[1] = FRITZ_DOMAIN}}

\* while the worker holds the new snapshot: an ID of the stored one is not in it
SomeIdGone ==
    \/ \E a \in DOMAIN data.devices : a \notin DOMAIN result.devices
    \/ \E a \in DOMAIN data.templates : a \notin DOMAIN result.templates

\* the new valid set: new device IDs plus new template IDs
NewValidSet == (DOMAIN result.devices) \cup (DOMAIN result.templates)

\* C2: when a cycle succeeds and an ID of the previous snapshot is absent from the
\* new one, the registries have lost exactly the entity records of this config entry
\* whose ID is not in the new valid set and this entry's association with exactly
\* the device records none of whose addresses is in it; every other record and
\* association is as before.
C2_ReconcileOnRemoval ==
    (pc = "store" /\ SomeIdGone) =>
        /\ entity_reg =
            {e \in before_call.entity_reg :
                e.config_entry_id # ENTRY \/ LeadingKey(e.unique_id) \in NewValidSet}
        /\ DOMAIN device_reg = DOMAIN before_call.device_reg
        /\ \A id \in DOMAIN device_reg :
            LET was == before_call.device_reg[id]
            IN  /\ device_reg[id].identifiers = was.identifiers
                /\ device_reg[id].config_entries =
                    (IF ENTRY \in was.config_entries
                        /\ FritzAddresses(was) \cap NewValidSet = {}
                     THEN was.config_entries \ {ENTRY}
                     ELSE was.config_entries)

\* C2 witness: a cycle after setup lost an ID and the entity registry lost a record
C2_Witness ==
    /\ pc = "store"
    /\ SomeIdGone
    /\ setup_done
    /\ NewValidSet # {}
    /\ entity_reg # before_call.entity_reg

\* a call of the first fetch (update_devices or update_templates, before any login)
\* raised ex
FirstFetchRaised(ex) ==
    \E i \in DOMAIN log :
        /\ log[i][1] # "login"
        /\ log[i][2] = ex
        /\ \A j \in 1 .. (i - 1) : log[j][1] # "login" /\ log[j][2] = "ok"

\* the cycle's login() call raised LoginError
LoginFailed == \E i \in DOMAIN log : log[i] = <<"login", "LoginError">>

\* the stored snapshot and the new-ID sets are what they were when the cycle began
StoredStateKept ==
    /\ data = cycle_start.data
    /\ new_devices = cycle_start.new_devices
    /\ new_templates = cycle_start.new_templates

RetriedFetch ==
    IF has_templates
    THEN << <<"update_devices", "ok">>, <<"update_templates", "ok">> >>
    ELSE << <<"update_devices", "ok">> >>

\* the first fetch raised an HTTP error, the login succeeded, no later call raised
HttpErrorThenRecovered ==
    /\ FirstFetchRaised("HTTPError")
    /\ \E i \in DOMAIN log :
        /\ log[i] = <<"login", "ok">>
        /\ \A j \in (i + 1) .. Len(log) : log[j][2] = "ok"

\* the stored snapshot is built from what the hub sent to the latest update calls
SnapshotIsFetched ==
    /\ DOMAIN data.devices = {d.ain : d \in fetched.devices}
    /\ \A d \in fetched.devices :
        /\ data.devices[d.ain].has_powermeter = d.has_powermeter
        /\ data.devices[d.ain].voltage = d.voltage
        /\ data.devices[d.ain].power = d.power
        /\ data.devices[d.ain].energy = d.energy
    /\ DOMAIN data.templates =
        (IF has_templates THEN {t.ain : t \in fetched.templates} ELSE {})

\* C4: a cycle whose first fetch raised an HTTP error and whose login succeeded, with
\* no error in the retried fetch, has made the retried fetch after the login, ended
\* without a failure, and stored the snapshot built from what the retry fetched.
C4_HttpErrorRetryYieldsFresh ==
    (pc = "idle" /\ HttpErrorThenRecovered) =>
        /\ \E i \in DOMAIN log :
            /\ log[i] = <<"login", "ok">>
            /\ SubSeq(log, i + 1, Len(log)) = RetriedFetch
        /\ outcome = "ok"
        /\ SnapshotIsFetched

\* C4 witness: update_templates raised the HTTP error after update_devices had
\* succeeded, and the retry after the login brought a snapshot with a device
C4_Witness ==
    /\ pc = "idle"
    /\ HttpErrorThenRecovered
    /\ Len(log) = 5
    /\ outcome = "ok"
    /\ DOMAIN data.devices # {}

C6_TwoFailureClasses ==
    (pc = "idle" /\ outcome \notin {"none", "ok"}) =>
        /\ outcome \in {"ConfigEntryAuthFailed", "UpdateFailed"}
        /\ outcome = "ConfigEntryAuthFailed" <=> LoginFailed

\* C7: the keys of the stored device map and of the stored template map are the IDs
\* the hub reported to the most recent successful cycle, and none before the first;
\* a cycle that is running or has failed has not changed the stored snapshot; without
\* template support the template map is empty.
C7_KeysAreLastReported ==
    /\ DOMAIN data.devices = reported.devices
    /\ DOMAIN data.templates = reported.templates
    /\ outcome = "none" => (DOMAIN data.devices = {} /\ DOMAIN data.templates = {})
    /\ ~has_templates => DOMAIN data.templates = {}
    /\ (pc \notin {"idle", "setup_cleanup"} \/ outcome \notin {"none", "ok"}) =>
        data = cycle_start.data

\* C7 witness: a cycle failed after a successful one, the hub's devices having changed
C7_Witness ==
    /\ pc = "idle"
    /\ outcome = "UpdateFailed"
    /\ reported.devices # {}
    /\ reported.devices # {d.ain : d \in fritz.devices}
    /\ has_templates
    /\ reported.templates # {}

\* C8: a direct call of cleanup_removed_devices that repeats the ID list of the call
\* before it leaves the entity registry and the device registry as that call left
\* them.
C8_CleanupIdempotent ==
    repeated =>
        /\ entity_reg = before_call.entity_reg
        /\ device_reg = before_call.device_reg

\* C8 witness: the list was not empty, the first call had detached a device and an
\* entity of this config entry survived both calls
C8_Witness ==
    /\ repeated
    /\ Len(cleanup_arg) > 0
    /\ \E id \in DOMAIN device_reg : device_reg[id].config_entries = {}
    /\ \E e \in entity_reg : e.config_entry_id = ENTRY

\* the addresses of the latest direct call's ID list
CalledAddresses == Range(cleanup_arg)

\* C9 as stated: a direct call removes an entity record of this config entry if and
\* only if its unique ID does not start with any address of the list.
C9_RemovedIffNoValidPrefix ==
    called =>
        \A e \in EntityEntriesForConfigEntry(before_call.entity_reg, ENTRY) :
            e \notin entity_reg <=>
                ~\E a \in CalledAddresses : StartsWith(e.unique_id, a)

\* C9 amended: a direct call removes an entity record of this config entry if and
\* only if the part of its unique ID before the first underscore (the whole unique ID
\* if it has none) is not an element of the list; the records of other config
\* entries stay and no record is added.
C9_RemovedIffKeyNotListed ==
    called =>
        /\ \A e \in EntityEntriesForConfigEntry(before_call.entity_reg, ENTRY) :
            e \notin entity_reg <=> LeadingKey(e.unique_id) \notin CalledAddresses
        /\ \A e \in before_call.entity_reg :
            e.config_entry_id # ENTRY => e \in entity_reg
        /\ entity_reg \subseteq before_call.entity_reg

\* C9 witness: with "a" in the list, the entity "a_x" was kept and the entity "ab_x",
\* whose unique ID starts with "a", was removed
C9_Witness ==
    /\ called
    /\ cleanup_arg = <<AinA>>
    /\ [unique_id |-> AinA \o <<"_", "x">>, config_entry_id |-> ENTRY] \in entity_reg
    /\ [unique_id |-> AinAB \o <<"_", "x">>, config_entry_id |-> ENTRY]
        \in before_call.entity_reg \ entity_reg

\* the (domain, address) pairs of the latest direct call's ID list
CalledPairs == {<<FRITZ_DOMAIN, a>> : a \in CalledAddresses}

\* C10: a direct call detaches this config entry from exactly the device records of
\* the entry whose identifiers share no (domain, address) pair with the list; no
\* device record is deleted or added, no identifier and no association with another
\* config entry changes, and a record that shares a pair with the list is unchanged.
C10_DetachOnlyUnlistedDevices ==
    called =>
        /\ DOMAIN device_reg = DOMAIN before_call.device_reg
        /\ \A id \in DOMAIN device_reg :
            LET was == before_call.device_reg[id]
                now == device_reg[id]
            IN  /\ now.identifiers = was.identifiers
                /\ now.config_entries \ {ENTRY} = was.config_entries \ {ENTRY}
                /\ (ENTRY \in was.config_entries /\ was.identifiers \cap CalledPairs = {})
                    => ENTRY \notin now.config_entries
                /\ was.identifiers \cap CalledPairs # {} => now = was
                /\ ENTRY \notin was.config_entries => now = was

\* C10 witness: the list names address "a"; a device of the entry identified by
\* another integration's pair for "a" was detached, its other association kept
C10_Witness ==
    /\ called
    /\ cleanup_arg = <<AinA>>
    /\ \E id \in DOMAIN device_reg :
        /\ before_call.device_reg[id] =
            [identifiers |-> {<<OTHER_DOMAIN, AinA>>},
             config_entries |-> {ENTRY, OTHER_ENTRY}]
        /\ device_reg[id].config_entries = {OTHER_ENTRY}


\* the positions in the cycle's log of the calls of a vendor method
CallsOf(method) == {i \in DOMAIN log : log[i][1] = method}

\* the calls one fetch makes when nothing is raised
FetchCalls ==
    IF has_templates THEN <<"update_devices", "update_templates">>
    ELSE <<"update_devices">>

\* the first fetch ran to its end without raising
FirstFetchSucceeded ==
    /\ Len(log) >= Len(FetchCalls)
    /\ \A i \in DOMAIN FetchCalls : log[i] = <<FetchCalls[i], "ok">>

\* C11: in a poll cycle login is called at most once and each call of the fetch
\* (update_devices, and update_templates when templates are supported, never
\* otherwise) at most twice; a login comes right after a call of the first fetch that
\* raised an HTTP error; a second update_devices comes right after a login that
\* returned, and a second update_templates only after one; a cycle whose first fetch
\* succeeded has no login.
C11_OneLoginOneRetry ==
    /\ Cardinality(CallsOf("login")) <= 1
    /\ Cardinality(CallsOf("update_devices")) <= 2
    /\ Cardinality(CallsOf("update_templates")) <= 2
    /\ ~has_templates => CallsOf("update_templates") = {}
    /\ \A i \in CallsOf("login") :
        /\ i > 1
        /\ log[i - 1][1] # "login"
        /\ log[i - 1][2] = "HTTPError"
    /\ \A j \in CallsOf("update_devices") :
        j > 1 => log[j - 1] = <<"login", "ok">>
    /\ \A j \in CallsOf("update_templates") :
        (\E k \in CallsOf("update_templates") : k < j) =>
            \E i \in 1 .. (j - 1) : log[i] = <<"login", "ok">>
    /\ FirstFetchSucceeded => CallsOf("login") = {}

\* C11 witness: a finished cycle with one login and two fetches, the second of which
\* raised in its turn
C11_Witness ==
    /\ pc = "idle"
    /\ log = << <<"update_devices", "ok">>, <<"update_templates", "HTTPError">>,
                <<"login", "ok">>, <<"update_devices", "ok">>,
                <<"update_templates", "HTTPError">> >>


\* a poll cycle is running on the worker
CycleRunning == pc \in {"try_devices", "try_templates", "login", "retry_devices",
                        "retry_templates", "build", "store"}

\* C12: while a cycle is running, the stored snapshot and the device objects it holds
\* are as they were when the cycle began; at any time a reader finds in the stored
\* snapshot the device objects as the last successful cycle returned them, the whole
\* previous snapshot until the whole new one replaces it.
C12_ReaderSeesWholeSnapshot ==
    /\ CycleRunning => (data = cycle_start.data /\ data_objects = cycle_start.objects)
    /\ DOMAIN data_objects = DOMAIN data.devices
    /\ data_objects = data.devices


\* the step in which a cycle hands its snapshot over
CycleSucceeds == pc = "store" /\ pc' # "store"

\* C13: when a cycle succeeds, new_devices is the device IDs of the new snapshot
\* without the device IDs of the snapshot stored before the cycle, and new_templates
\* the same for the templates; in the first successful cycle they are all the IDs the
\* hub sent, and in a cycle that brings the same IDs as the one before both are empty.
C13_NewIdsAreDifference ==
    [][CycleSucceeds =>
        /\ outcome' = "ok"
        /\ new_devices' = (DOMAIN data'.devices) \ (DOMAIN data.devices)
        /\ new_templates' = (DOMAIN data'.templates) \ (DOMAIN data.templates)
        /\ outcome = "none" =>
            /\ new_devices' = {d.ain : d \in fetched.devices}
            /\ new_templates' =
                (IF has_templates THEN {t.ain : t \in fetched.templates} ELSE {})
        /\ (DOMAIN data'.devices = DOMAIN data.devices) => new_devices' = {}
        /\ (DOMAIN data'.templates = DOMAIN data.templates) => new_templates' = {}]_vars

\* C13 witness: a cycle has added device ab to the known device a, a template staying
C13_Witness ==
    /\ pc = "idle"
    /\ outcome = "ok"
    /\ setup_done
    /\ DOMAIN data.devices = {AinA, AinAB}
    /\ new_devices = {AinAB}
    /\ DOMAIN data.templates = {AinT}
    /\ new_templates = {}

\* the step from the fetched data to the snapshot: lines 100 to 133
CycleBuilds == pc = "build" /\ pc' = "store"

\* C14: a cycle calls cleanup_removed_devices, once, if and only if a device ID or a
\* template ID of the stored snapshot is not in the dicts built from the fetch; if none
\* is missing (IDs were only added, or none changed) the entity registry and the device
\* registry are as before, and no other step of a running cycle touches them.
C14_ReconcileIffIdGone ==
    [][/\ CycleBuilds =>
            LET gone ==
                    \/ (DOMAIN data.devices) \ (DOMAIN result'.devices) # {}
                    \/ (DOMAIN data.templates) \ (DOMAIN result'.templates) # {}
            IN  /\ cleanups = 0
                /\ cleanups' = (IF gone THEN 1 ELSE 0)
                /\ ~gone => UNCHANGED <<entity_reg, device_reg>>
       /\ (CycleRunning /\ ~CycleBuilds) =>
            UNCHANGED <<entity_reg, device_reg, cleanups>>]_vars

\* C14 witness: a cycle after setup has only added a device; no cleanup was called and
\* an entity record of this config entry whose ID the hub does not know is still there
C14_Witness ==
    /\ pc = "store"
    /\ setup_done
    /\ cleanups = 0
    /\ DOMAIN data.devices = {AinA}
    /\ DOMAIN result.devices = {AinA, AinAB}
    /\ \E e \in entity_reg :
        e.config_entry_id = ENTRY /\ LeadingKey(e.unique_id) \notin NewValidSet


\* the events the latest callback fired
Fired == SubSeq(bus, callback.before + 1, Len(bus))

\* the button's type contains "RaiseLower" (a button without a type has none)
IsRaiseLower(button) ==
    \E t \in button.button_type : \E i \in DOMAIN t : t[i] = "RaiseLower"

\* C15: a button callback fires at most one event; a fired event is a "lutron_event"
\* whose data are exactly id, action, full_id and uuid, those of the button called
\* back; a button whose type contains "RaiseLower" fires one event on every callback,
\* with action "pressed" for PRESSED and "released" for any other event; any other
\* button fires one event with action "single" for PRESSED and none otherwise.
C15_ButtonEvents ==
    callback.called =>
        LET self == LutronButton(AREA_NAME, KEYPAD_NAME, callback.button)
        IN  /\ Len(Fired) <= 1
            /\ \A i \in DOMAIN Fired :
                /\ Fired[i][1] = "lutron_event"
                /\ DOMAIN Fired[i][2] = {"id", "action", "full_id", "uuid"}
                /\ Fired[i][2].id = self._id
                /\ Fired[i][2].full_id = self._full_id
                /\ Fired[i][2].uuid = callback.button.uuid
            /\ IF IsRaiseLower(callback.button)
               THEN /\ Len(Fired) = 1
                    /\ Fired[1][2].action =
                        (IF callback.event = PRESSED THEN "pressed" ELSE "released")
               ELSE IF callback.event = PRESSED
               THEN Len(Fired) = 1 /\ Fired[1][2].action = "single"
               ELSE Len(Fired) = 0

\* C15 witness: the master raise/lower button was released after a press of a
\* single-action button, each having fired its event
C15_Witness ==
    /\ callback.called
    /\ callback.button.button_type = {<<"Master", "RaiseLower">>}
    /\ callback.event = RELEASED
    /\ Len(bus) = 2
    /\ bus[1][2].action = "single"
    /\ bus[2][2].action = "released"


\* whole is a whole number of degrees nearest to the temperature given in quarters
NearestWhole(whole, quarters) ==
    /\ 4 * whole - quarters <= 2
    /\ quarters - 4 * whole <= 2

\* C16: after an async_set_temperature call with a temperature, made in mode COOL or
\* HEAT, the cool setpoint is at least 3 above the heat setpoint, the setpoint of the
\* mode is the requested temperature rounded to a whole degree, and the other setpoint
\* is as before unless it was closer than 3 to the new one, in which case it is 3
\* away; a call without a temperature raises ValueError and changes no setpoint.
C16_SetpointSeparation ==
    (call.made /\ call.op = "async_set_temperature") =>
        LET was == call.before
        IN  IF "temperature" \notin DOMAIN call.kwargs
            THEN /\ call.raised = "ValueError"
                 /\ hvac.setpoint_heat_f = was.setpoint_heat_f
                 /\ hvac.setpoint_cool_f = was.setpoint_cool_f
            ELSE /\ call.raised = ""
                 /\ was.hvac_mode \in {{"cool"}, {"heat"}} =>
                        hvac.setpoint_cool_f - hvac.setpoint_heat_f >= 3
                 /\ was.hvac_mode = {"cool"} =>
                    /\ NearestWhole(hvac.setpoint_cool_f, call.kwargs.temperature)
                    /\ hvac.setpoint_heat_f =
                        (IF hvac.setpoint_cool_f - was.setpoint_heat_f < 3
                         THEN hvac.setpoint_cool_f - 3 ELSE was.setpoint_heat_f)
                 /\ was.hvac_mode = {"heat"} =>
                    /\ NearestWhole(hvac.setpoint_heat_f, call.kwargs.temperature)
                    /\ hvac.setpoint_cool_f =
                        (IF was.setpoint_cool_f - hvac.setpoint_heat_f < 3
                         THEN hvac.setpoint_heat_f + 3 ELSE was.setpoint_cool_f)

\* C16 witness: in mode HEAT, with setpoints 3 or more apart, a temperature of a whole
\* degree and a half was asked for; the heat setpoint came to lie 2 below the cool
\* setpoint, which was moved up by one
C16_Witness ==
    /\ call.made
    /\ call.op = "async_set_temperature"
    /\ call.before.hvac_mode = {"heat"}
    /\ "temperature" \in DOMAIN call.kwargs
    /\ call.kwargs.temperature % 4 = 2
    /\ call.before.setpoint_cool_f - hvac.setpoint_heat_f = 2
    /\ call.before.setpoint_cool_f - call.before.setpoint_heat_f >= 3
    /\ hvac.setpoint_cool_f = call.before.setpoint_cool_f + 1


\* the values a list holds
Supported(list) == {list[i] : i \in DOMAIN list}

\* the three attributes of the device that the mode services assign
ModesKept ==
    /\ hvac.current_mode = call.before.current_mode
    /\ hvac.current_fan = call.before.current_fan
    /\ hvac.preset_mode = call.before.preset_mode

\* the platform value the dict gives for every code in codes is value, and there is
\* such a code
MapsBack(codes, dictionary, value) ==
    /\ codes # {}
    /\ \A code \in codes :
        \E i \in DOMAIN dictionary : dictionary[i] = <<code, value>>

\* C17: async_set_hvac_mode with a mode not in hvac_modes, async_set_fan_mode with a
\* fan mode not in fan_modes and async_set_preset_mode with a preset not in
\* preset_modes raise ValueError and leave current_mode, current_fan and preset_mode
\* of the device as they were; an accepted HVAC mode or fan mode raises nothing, and
\* the vendor code assigned to the device is one that LUTRON_TO_HVAC_MODES or
\* LUTRON_TO_FAN_MODES maps to that mode; an accepted call changes no other of the
\* three attributes.
C17_UnsupportedRejected ==
    (call.made /\ call.op # "async_set_temperature") =>
        LET was == call.before
        IN  /\ call.op = "async_set_hvac_mode" =>
                IF call.arg \notin Supported(HvacModesOf(hvac))
                THEN call.raised = "ValueError" /\ ModesKept
                ELSE /\ call.raised = ""
                     /\ MapsBack(hvac.current_mode, LUTRON_TO_HVAC_MODES, call.arg)
                     /\ hvac.current_fan = was.current_fan
                     /\ hvac.preset_mode = was.preset_mode
            /\ call.op = "async_set_fan_mode" =>
                IF call.arg \notin Supported(FanModesOf(hvac))
                THEN call.raised = "ValueError" /\ ModesKept
                ELSE /\ call.raised = ""
                     /\ MapsBack(hvac.current_fan, LUTRON_TO_FAN_MODES, call.arg)
                     /\ hvac.current_mode = was.current_mode
                     /\ hvac.preset_mode = was.preset_mode
            /\ call.op = "async_set_preset_mode" =>
                IF call.arg \notin Supported(PresetModesOf(hvac))
                THEN call.raised = "ValueError" /\ ModesKept
                ELSE /\ call.raised = ""
                     /\ hvac.preset_mode = {call.arg}
                     /\ hvac.current_mode = was.current_mode
                     /\ hvac.current_fan = was.current_fan

\* C17 witness: a thermostat that can be locked had mode, fan and preset set; then
\* the mode COOL, which it does not have, was asked for and turned down
C17_Witness ==
    /\ call.made
    /\ call.op = "async_set_hvac_mode"
    /\ call.arg = "cool"
    /\ call.raised = "ValueError"
    /\ hvac._operating_modes[1] = "LOCKED"
    /\ hvac.current_mode = {"OFF"}
    /\ hvac.current_fan = {"NO_FAN"}
    /\ hvac.preset_mode = {"PERMANENT_HOLD"}

=============================================================================
